---- MODULE Spec2Model ----
(***************************************************************************)
(* saturated: HTTP build daemon.  Model of the build admission queue       *)
(* (BuildQueue / CountedMutex), the build request handler                  *)
(* (HTTPHandler.serveRequestBuild) and the build task (runBuild, Task).    *)
(*                                                                         *)
(* Every request handler is a goroutine; a step of the model is one        *)
(* statement (or one run of statements that touch no shared state) of the  *)
(* goroutine at position pc[h].                                            *)
(***************************************************************************)
EXTENDS Integers, Sequences, FiniteSets, TLC

\* ------------------------------------------------------------------ bounds
\* number of request goroutines that can be in flight at the same time
NumHandlers == 2
\* number of CountedMutex objects of one key that can be live at a time
MaxSlots == 2

\* -k: number of builds the history ring keeps
HistorySize == 2
\* number of builds recorded in one run of the daemon
MaxBuilds == 4
\* number of characters written to a log writer in one run
MaxWritten == 4
\* number of WithPrefix derivations in a row
MaxDerived == 2

Handlers == 1..NumHandlers
Slots == 1..MaxSlots
\* "no goroutine" (an unlocked sync.Mutex) and the nil *CountedMutex
NoOne == 0
Nil == 0
\* the status of a request that has created no BuildInfo
NoBuildInfo == ""

\* ------------------------------------------------------------------ inputs
\* Request paths after "/v1/build/", as sequences of characters.  The empty
\* one is the malformed request; the other two differ but name the same
\* directory once sanitized by runBuild.
URLs == { <<>>, <<"a", "/", "b">>, <<"a", ":", "b">> }
Keys == URLs \ { <<>> }
\* uids user.Lookup can return for the -u user
UserUids == { 99 }
\* -i: the install command, by default /usr/lib/saturated/install-package
DefaultInstallCommand == "install"

\* ------------------------------------------------------- pure functions
\* the character class [\w-@.] of runBuild's regexp, on the model's alphabet
IsWordChar(c) == c \in { "a", "b", "c", "_", "-", "@", "." }

\* regexp.MustCompile(`[^\w-@.]`).ReplaceAllLiteralString(repoURL, "__")
RECURSIVE RepoDir(_)
RepoDir(u) ==
    IF u = <<>> THEN <<>>
    ELSE (IF IsWordChar(Head(u)) THEN <<Head(u)>> ELSE <<"_", "_">>)
         \o RepoDir(Tail(u))

\* repoPath + "%work"
WorkDir(u) == RepoDir(u) \o <<"%", "w", "o", "r", "k">>

\* the mirror directories and the workspace directories requests can name
Dirs == { RepoDir(u) : u \in Keys }
WorkDirs == { WorkDir(u) : u \in Keys }

\* http.ResponseWriter.WriteHeader: the first status set is the one sent,
\* a later call is ignored (0: nothing sent yet)
WriteHeader(s, code) == IF s = 0 THEN code ELSE s

\* http.ResponseWriter.Write: sends the header with status 200 if none was
\* sent before
RespWrite(s) == WriteHeader(s, 200)

\* ------------------------------------------------ container/ring
\* the elements of ring.New(HistorySize), in the order of Ring.Next
Elements == 1..HistorySize

\* Ring.Prev and Ring.Next
Prev(p) == IF p = 1 THEN HistorySize ELSE p - 1
NextElement(p) == IF p = HistorySize THEN 1 ELSE p + 1

\* the nil Value of a ring element and the nil buildInfo of a handler, as
\* a BuildInfo with id 0
NilInfo ==
    [ id |-> 0, status |-> "", finished |-> FALSE, error |-> FALSE,
      pointer |-> 0 ]

\* the two revisions of the request handler, which keep the history
\* differently: HTTPHandler (part_000) and BuildHandler (main.go)
Revisions == { "HTTPHandler", "BuildHandler" }

\* ---------------------------------------------------- log writers
\* the characters of the data written to the log writers
Chars == { "a", "b", "\n" }

\* the byte strings of 1..n characters
Data(n) == UNION { [1..k -> Chars] : k \in 1..n }

\* bytes.TrimRight(data, "\n")
RECURSIVE TrimRight(_)
TrimRight(d) ==
    IF d = <<>> THEN <<>>
    ELSE IF d[Len(d)] = "\n" THEN TrimRight(SubSeq(d, 1, Len(d) - 1))
    ELSE d

\* the rest of regexp `(?m)^` -> prefix: the prefix goes in after every
\* newline of the data
RECURSIVE AfterNewlines(_, _)
AfterNewlines(d, p) ==
    IF d = <<>> THEN <<>>
    ELSE IF Head(d) = "\n" THEN <<"\n">> \o p \o AfterNewlines(Tail(d), p)
    ELSE <<Head(d)>> \o AfterNewlines(Tail(d), p)

\* PrefixLogger.Write: prefixedData, what is written to logger.output
PrefixedData(p, d) == p \o AfterNewlines(TrimRight(d), p)

\* bufio.Scanner with ScanLines over the bytes b: the newline-terminated
\* lines, without their newline, and the rest after the last newline as a
\* last line when it is not empty.  cur: the line read so far.
RECURSIVE Scan(_, _)
Scan(b, cur) ==
    IF b = <<>> THEN (IF cur = <<>> THEN <<>> ELSE <<cur>>)
    ELSE IF Head(b) = "\n" THEN <<cur>> \o Scan(Tail(b), <<>>)
    ELSE Scan(Tail(b), Append(cur, Head(b)))

ScanLines(b) == Scan(b, <<>>)

Line_NoNewline(l) == l

\* LineFlushLogger.Flush: []byte(string(line) + "\n")
Line(l) == l \o <<"\n">>

\* LineFlushLogger.Flush over a buffer holding b: what it writes to
\* logger.output, line + "\n" for every line the scanner yields
RECURSIVE WriteLines(_)
WriteLines(lines) ==
    IF lines = <<>> THEN <<>>
    ELSE Line(Head(lines)) \o WriteLines(Tail(lines))

\* The calls of LineFlushLogger.Flush's loop over the scanner's lines, in
\* order: logger.output.Write(line + "\n"), then logger.flusher.Flush(); the
\* loop ends with return err at the failAt-th line, whose write gives an
\* error (failAt = 0: no write fails).
RECURSIVE FlushCalls(_, _)
FlushCalls(lines, failAt) ==
    IF lines = <<>> THEN <<>>
    ELSE IF failAt = 1
    THEN << [ op |-> "write", data |-> Line(Head(lines)), ok |-> FALSE ] >>
    ELSE << [ op |-> "write", data |-> Line(Head(lines)), ok |-> TRUE ],
            [ op |-> "flush", data |-> <<>>, ok |-> TRUE ] >>
         \o FlushCalls(Tail(lines), IF failAt = 0 THEN 0 ELSE failAt - 1)

Flush(b) == WriteLines(ScanLines(b))

\* The buffer the LineFlushLogger keeps after Write.  Write and Flush have
\* value receivers: they work on a copy of the logger, local is the copy's
\* buffer with the data written to it, and the logger's own buffer is left
\* as it was.
RetainedBuffer(kept, local) == kept

VARIABLES
    pc,             \* position of each handler goroutine
    url,            \* repoURL of the request a handler serves
    qowner,         \* holder of BuildQueue's registry mutex
    clients,        \* BuildQueue.clients: key -> slot, Nil when absent
    locked,         \* CountedMutex.locked of each slot of each key
    mholder,        \* holder of the sync.Mutex of each slot of each key
    mutex,          \* the *CountedMutex a handler got from the map
    queueSize,      \* value GetSize returned to the handler, -1 before
    status,         \* HTTP status sent on the handler's response, 0 if none
    err,            \* outcome of the request
    dropUid,        \* uid of the handler's successful rawSeteuid, -1 if none
    stages,         \* commands the handler's build task started, in order
    cleaned,        \* cleanWorkDir ran and left no workspace directory
    results,        \* exit result of each command in stages (TRUE: exit 0)
    closed,         \* the client has closed the connection of the request
    buildInfo,      \* status of the BuildInfo the handler created, "" if none
    head,           \* mirror directory has a HEAD file
    work,           \* workspace directory exists
    crashed,        \* the process died with a runtime fatal error
    lookupUid,      \* uid of the user given with -u
    buildUid,       \* HTTPHandler.buildUid
    installCommand, \* HTTPHandler.installCommand
    \* -- build history (container/ring)
    revision,       \* the handler revision the history runs: HTTPHandler
                    \* (part_000) or BuildHandler (main.go)
    ring,           \* Value of every element of the ring
    lastBuild,      \* handler.lastBuild: the ring element it points to
    nbuilds,        \* number of BuildInfo values created so far
    buildListMutex, \* holder of HTTPHandler.buildListMutex
    hpc,            \* position of each handler in the history's life cycle
    info,           \* the handler's local buildInfo
    \* -- log writers
    prefix,         \* PrefixLogger.prefix
    buffer,         \* LineFlushLogger.buffer as the writer's owner keeps it
    written,        \* all data passed to LineFlushLogger.Write, concatenated
    forwarded,      \* all data the LineFlushLogger wrote downstream
    lastData,       \* data of the last PrefixLogger.Write
    lastOutput,     \* what that write made the LineFlushLogger forward
    loggerClosed,   \* Close was called on the writer
    calls,          \* the calls the last Flush made on output and flusher
    flushErr,       \* the last Flush returned an error
    given           \* the prefixes the logger was built and derived with

\* the build history and the log writers
histVars == << revision, ring, lastBuild, nbuilds, buildListMutex, hpc, info >>
logVars == << prefix, buffer, written, forwarded, lastData, lastOutput,
              loggerClosed, calls, flushErr, given >>

\* the admission queue, the request handlers and their build tasks
buildVars == << pc, url, qowner, clients, locked, mholder, mutex,
                queueSize, status, err, dropUid, stages, cleaned, results,
                closed, buildInfo, head, work, crashed, lookupUid, buildUid,
                installCommand >>

vars == << buildVars, histVars, logVars >>

queueVars == << qowner, clients, locked, mholder >>
fsVars == << head, work >>
cfgVars == << lookupUid, buildUid, installCommand >>

\* BuildQueue.GetSize, evaluated on the current registry
GetSize(id) == IF clients[id] = Nil THEN 0 ELSE locked[id][clients[id]]

\* main: the handler is built without buildUid, which keeps Go's zero value
HandlerBuildUid(uid) == 0

\* ring.New(maxBuildCount) in the handler of revision r, no build recorded
InitHistory(r) ==
    /\ revision = r
    /\ ring = [p \in Elements |-> NilInfo]
    /\ lastBuild = 1
    /\ nbuilds = 0
    /\ buildListMutex = NoOne
    /\ hpc = [h \in Handlers |-> "idle"]
    /\ info = [h \in Handlers |-> NilInfo]

\* PrefixLogger{prefix, output: NewLineFlushLogger(...)}, nothing written
InitLoggers ==
    /\ prefix = <<"#">>
    /\ buffer = <<>>
    /\ written = <<>>
    /\ forwarded = <<>>
    /\ lastData = <<>>
    /\ lastOutput = <<>>
    /\ loggerClosed = FALSE
    /\ calls = <<>>
    /\ flushErr = FALSE
    /\ given = << <<"#">> >>

\* the queue, the handlers and the directories after main has built the
\* handler, for a given -i
InitBuild(install) ==
    /\ pc = [h \in Handlers |-> "idle"]
    /\ url = [h \in Handlers |-> <<>>]
    /\ qowner = NoOne
    /\ clients = [k \in Keys |-> Nil]
    /\ locked = [k \in Keys |-> [s \in Slots |-> 0]]
    /\ mholder = [k \in Keys |-> [s \in Slots |-> NoOne]]
    /\ mutex = [h \in Handlers |-> Nil]
    /\ queueSize = [h \in Handlers |-> -1]
    /\ status = [h \in Handlers |-> 0]
    /\ err = [h \in Handlers |-> "unset"]
    /\ dropUid = [h \in Handlers |-> -1]
    /\ stages = [h \in Handlers |-> <<>>]
    /\ cleaned = [h \in Handlers |-> FALSE]
    /\ results = [h \in Handlers |-> <<>>]
    /\ closed = [h \in Handlers |-> FALSE]
    /\ buildInfo = [h \in Handlers |-> NoBuildInfo]
    /\ head = [d \in Dirs |-> FALSE]
    /\ work = [d \in WorkDirs |-> FALSE]
    /\ crashed = FALSE
    /\ lookupUid \in UserUids
    /\ buildUid = HandlerBuildUid(lookupUid)
    /\ installCommand = install

\* the daemon after main has built the handler, for a given -i
InitWith(install) ==
    /\ InitBuild(install)
    /\ InitHistory("HTTPHandler")
    /\ InitLoggers

\* started with the default install command
Init == InitWith(DefaultInstallCommand)

\* started with -i ""
InitNoInstall == InitWith("")


\* values of the per-request variables of a goroutine that serves no request
Reset(f, h, v) == [f EXCEPT ![h] = v]

ClearRequest(h) ==
    /\ url' = Reset(url, h, <<>>)
    /\ mutex' = Reset(mutex, h, Nil)
    /\ queueSize' = Reset(queueSize, h, -1)
    /\ status' = Reset(status, h, 0)
    /\ err' = Reset(err, h, "unset")
    /\ dropUid' = Reset(dropUid, h, -1)
    /\ stages' = Reset(stages, h, <<>>)
    /\ cleaned' = Reset(cleaned, h, FALSE)
    /\ results' = Reset(results, h, <<>>)
    /\ closed' = Reset(closed, h, FALSE)
    /\ buildInfo' = Reset(buildInfo, h, NoBuildInfo)

reqVars == << url, mutex, queueSize, status, err, dropUid, stages, cleaned,
             results, closed, buildInfo >>

\* ------------------------------------------- HTTPHandler.serveRequestBuild
\* A request for /v1/build/<u> arrives.  An empty <u> is answered with 400
\* at once; otherwise the handler goes on to query the queue.
EmptyURL_Never(u) == FALSE

\* if repoURL == ""
EmptyURL(u) == u = <<>>

ServeRequestBuild(h, u) ==
    /\ ~crashed
    /\ pc[h] = "idle"
    /\ url' = [url EXCEPT ![h] = u]
    /\ IF EmptyURL(u)
       THEN /\ status' = [status EXCEPT ![h] = RespWrite(WriteHeader(@, 400))]
            /\ err' = [err EXCEPT ![h] = "nourl"]
            /\ pc' = [pc EXCEPT ![h] = "return"]
       ELSE /\ pc' = [pc EXCEPT ![h] = "getsize"]
            /\ UNCHANGED << status, err >>
    /\ UNCHANGED << mutex, queueSize, dropUid, stages, cleaned,
                    results, closed, buildInfo >>
    /\ UNCHANGED << queueVars, fsVars, cfgVars, histVars, logVars, crashed >>

\* queueSize := handler.queue.GetSize(repoURL), under the registry lock, and
\* the "you are N in the build queue" line when it is positive
QueueGetSize(h) ==
    /\ ~crashed
    /\ pc[h] = "getsize"
    /\ qowner = NoOne
    /\ queueSize' = [queueSize EXCEPT ![h] = GetSize(url[h])]
    /\ status' = [status EXCEPT ![h] =
                     IF GetSize(url[h]) > 0 THEN RespWrite(@) ELSE @]
    /\ pc' = [pc EXCEPT ![h] = "seize_lock"]
    /\ UNCHANGED << url, mutex, err, dropUid, stages, cleaned,
                    results, closed, buildInfo >>
    /\ UNCHANGED << queueVars, fsVars, cfgVars, histVars, logVars, crashed >>

\* ---------------------------------------------------------- BuildQueue.Seize
\* The CountedMutex objects of key id no pointer refers to: neither the map
\* nor a goroutine's local variable.  The slots of a key are named 1, 2, ...
FreeSlots(id) ==
    { s \in Slots : /\ clients[id] # s
                    /\ \A g \in Handlers : ~(url[g] = id /\ mutex[g] = s) }

\* &CountedMutex{}: a new object, unlocked and with locked = 0
NewSlot(id) == CHOOSE s \in FreeSlots(id) : \A t \in FreeSlots(id) : s <= t

\* queue.Lock()
\* if queue.clients[id] == nil { queue.clients[id] = &CountedMutex{} }
\* queue.Unlock()
SeizeInsert(h) ==
    /\ ~crashed
    /\ pc[h] = "seize_lock"
    /\ qowner = NoOne
    /\ IF clients[url[h]] = Nil
       THEN /\ FreeSlots(url[h]) # {}
            /\ LET s == NewSlot(url[h]) IN
               /\ clients' = [clients EXCEPT ![url[h]] = s]
               /\ locked' = [locked EXCEPT ![url[h]][s] = 0]
               /\ mholder' = [mholder EXCEPT ![url[h]][s] = NoOne]
       ELSE UNCHANGED << clients, locked, mholder >>
    /\ pc' = [pc EXCEPT ![h] = "seize_read"]
    /\ UNCHANGED << qowner, reqVars, fsVars, cfgVars, histVars, logVars, crashed >>

\* the test of Free that decides whether the key's entry is deleted
FreeDeletes(n) == n = 0

\* A goroutine that can take the registry lock now and will then write the
\* map (insert in Seize, delete in Free).
MapWriter(g) ==
    /\ qowner = NoOne
    /\ \/ pc[g] = "seize_lock" /\ clients[url[g]] = Nil
       \/ /\ pc[g] = "free_lock"
          /\ clients[url[g]] # Nil
          /\ FreeDeletes(GetSize(url[g]))

\* What the map read of Seize's last line can yield.  It runs after
\* queue.Unlock(), so it may run together with another goroutine's map
\* write: a data race, after which the read may also miss the entry or the
\* runtime may stop the process ("concurrent map read and map write").
SeizeReadOutcomes(h) ==
    { "value" } \cup
    (IF \E g \in Handlers \ {h} : MapWriter(g) THEN { "nil", "fatal" } ELSE {})

\* A runtime fatal error ends the process: every goroutine and the whole
\* memory of the daemon are gone, the directories stay.
FatalError ==
    /\ crashed' = TRUE
    /\ pc' = [h \in Handlers |-> "dead"]
    /\ url' = [h \in Handlers |-> <<>>]
    /\ mutex' = [h \in Handlers |-> Nil]
    /\ queueSize' = [h \in Handlers |-> -1]
    /\ status' = [h \in Handlers |-> 0]
    /\ err' = [h \in Handlers |-> "unset"]
    /\ dropUid' = [h \in Handlers |-> -1]
    /\ stages' = [h \in Handlers |-> <<>>]
    /\ cleaned' = [h \in Handlers |-> FALSE]
    /\ results' = [h \in Handlers |-> <<>>]
    /\ closed' = [h \in Handlers |-> FALSE]
    /\ buildInfo' = [h \in Handlers |-> NoBuildInfo]
    /\ qowner' = NoOne
    /\ clients' = [k \in Keys |-> Nil]
    /\ locked' = [k \in Keys |-> [s \in Slots |-> 0]]
    /\ mholder' = [k \in Keys |-> [s \in Slots |-> NoOne]]

\* the map read of queue.clients[id].Lock()
SeizeRead(h) ==
    /\ ~crashed
    /\ pc[h] = "seize_read"
    /\ \E o \in SeizeReadOutcomes(h) :
         LET m == IF o = "nil" THEN Nil ELSE clients[url[h]] IN
         IF o = "fatal"
         THEN FatalError
         ELSE /\ IF m = Nil
                 THEN \* nil pointer dereference: net/http recovers the panic
                      /\ err' = [err EXCEPT ![h] = "panic"]
                      /\ pc' = [pc EXCEPT ![h] = "return"]
                      /\ UNCHANGED mutex
                 ELSE /\ mutex' = [mutex EXCEPT ![h] = m]
                      /\ pc' = [pc EXCEPT ![h] = "seize_count"]
                      /\ UNCHANGED err
              /\ UNCHANGED << url, queueSize, status, dropUid, stages, cleaned,
                    results, closed, buildInfo >>
              /\ UNCHANGED << queueVars, crashed >>
    /\ UNCHANGED << fsVars, cfgVars, histVars, logVars >>

LockedAfterLock_Twice(n) == n + 2

\* the counter after CountedMutex.Lock's atomic.AddInt64(&mutex.locked, +1)
LockedAfterLock(n) == n + 1

\* CountedMutex.Lock: atomic.AddInt64(&mutex.locked, +1)
CountedMutexLockAdd(h) ==
    /\ ~crashed
    /\ pc[h] = "seize_count"
    /\ locked' = [locked EXCEPT ![url[h]][mutex[h]] = LockedAfterLock(@)]
    /\ pc' = [pc EXCEPT ![h] = "seize_mutex"]
    /\ UNCHANGED << qowner, clients, mholder >>
    /\ UNCHANGED << reqVars, fsVars, cfgVars, histVars, logVars, crashed >>

MutexUnlocked_Always(k, s) == TRUE

MutexUnlocked_AnyKey(k, s) ==
    \A k2 \in Keys : \A s2 \in Slots : mholder[k2][s2] = NoOne

\* sync.Mutex.Lock returns only when the mutex is not held
MutexUnlocked(k, s) == mholder[k][s] = NoOne

\* CountedMutex.Lock: mutex.Mutex.Lock(), which blocks while it is held
CountedMutexLockMutex(h) ==
    /\ ~crashed
    /\ pc[h] = "seize_mutex"
    /\ MutexUnlocked(url[h], mutex[h])
    /\ mholder' = [mholder EXCEPT ![url[h]][mutex[h]] = h]
    /\ mutex' = [mutex EXCEPT ![h] = Nil]
    /\ queueSize' = [queueSize EXCEPT ![h] = -1]
    /\ pc' = [pc EXCEPT ![h] = "running"]
    /\ UNCHANGED << qowner, clients, locked >>
    /\ UNCHANGED << url, status, err, dropUid, stages, cleaned,
                    results, closed, buildInfo >>
    /\ UNCHANGED << fsVars, cfgVars, histVars, logVars, crashed >>


\* ---------------------------- serveRequestBuild, after Seize has returned
\* (defer Free)  "running build task for ..." is written to the response,
\* then request.ParseForm(): on an error WriteHeader(400) and return; else
\* the BuildInfo of the request is created "in progress" and given to
\* handler.saveNewBuild (the ring it is put in: see the build history below).
ParseForm(h) ==
    /\ ~crashed
    /\ pc[h] = "running"
    /\ \E ok \in BOOLEAN :
         IF ok
         THEN /\ status' = [status EXCEPT ![h] = RespWrite(@)]
              /\ buildInfo' = [buildInfo EXCEPT ![h] = "in progress"]
              /\ pc' = [pc EXCEPT ![h] = "setuid"]
              /\ UNCHANGED err
         ELSE /\ status' = [status EXCEPT ![h] =
                               RespWrite(WriteHeader(RespWrite(@), 400))]
              /\ err' = [err EXCEPT ![h] = "parse"]
              /\ pc' = [pc EXCEPT ![h] = "free_lock"]
              /\ UNCHANGED buildInfo
    /\ UNCHANGED << url, mutex, queueSize, dropUid, stages, cleaned,
                    results, closed >>
    /\ UNCHANGED << queueVars, fsVars, cfgVars, histVars, logVars, crashed >>

AfterSeteuid_IgnoreError(ok) == "clone"

AfterSeteuid_NoFree(ok) == IF ok THEN "clone" ELSE "return"

\* where serveRequestBuild goes on after rawSeteuid: runBuild, or the return
\* (and the deferred Free) when it gave an error
AfterSeteuid(ok) == IF ok THEN "clone" ELSE "free_lock"

\* "changing uid to ..." is written, then rawSeteuid(handler.buildUid): on
\* an error WriteHeader(500), the "can't set uid" line and return.
RawSeteuid(h) ==
    /\ ~crashed
    /\ pc[h] = "setuid"
    /\ \E ok \in BOOLEAN :
         IF ok
         THEN /\ status' = [status EXCEPT ![h] = RespWrite(@)]
              /\ dropUid' = [dropUid EXCEPT ![h] = buildUid]
              /\ pc' = [pc EXCEPT ![h] = AfterSeteuid(TRUE)]
              /\ UNCHANGED err
         ELSE /\ status' = [status EXCEPT ![h] =
                               RespWrite(WriteHeader(RespWrite(@), 500))]
              /\ err' = [err EXCEPT ![h] = "setuid"]
              /\ pc' = [pc EXCEPT ![h] = AfterSeteuid(FALSE)]
              /\ UNCHANGED dropUid
    /\ UNCHANGED << url, mutex, queueSize, stages, cleaned,
                    results, closed, buildInfo >>
    /\ UNCHANGED << queueVars, fsVars, cfgVars, histVars, logVars, crashed >>

\* ---------------------------------------------------- runBuild and Task
\* the command a stage runs is started
Started(h, stage) == stages' = [stages EXCEPT ![h] = Append(@, stage)]

\* the command has exited: command.Run's process result, TRUE for exit 0
Exited(h, exit) == results' = [results EXCEPT ![h] = Append(@, exit)]

\* The copy of the command's output to the logger: a write to the response
\* fails once the client has closed the connection, LineFlushLogger.Flush
\* and PrefixLogger.Write hand the error up.  out: the command wrote output.
Delivered(h, out) == ~(closed[h] /\ out)

\* runCommandWithLog returns nil: command.Run() gives an error when the
\* process failed and also when the copy of its output failed
RunCommandWithLog(exit, delivered) == exit /\ delivered

RunReturn_NoDefer == "finish"

\* a return of Task.run: the deferred task.cleanWorkDir() runs first
RunReturn == "clean"

AfterBuild_AlwaysInstall == "install"

\* after buildPackage: the install command if one is set, else run returns
AfterBuild == IF installCommand # "" THEN "install" ELSE RunReturn

RepoExists_Never(d) == FALSE

\* Task.clone: os.Stat(filepath.Join(repoPath, "HEAD")) gives no error
RepoExists(d) == head[d]

\* Task.updateMirror -> Task.clone: no command when HEAD exists
\* (RepoExistError), else git clone --mirror.  A failure makes runBuild
\* return "can't update mirror" without calling Task.run.
Clone(h) ==
    /\ ~crashed
    /\ pc[h] = "clone"
    /\ LET d == RepoDir(url[h]) IN
       IF RepoExists(d)
       THEN /\ pc' = [pc EXCEPT ![h] = "fetch"]
            /\ UNCHANGED << stages, results, err, head >>
       ELSE /\ Started(h, "clone")
            /\ \E exit, out \in BOOLEAN :
                 /\ Exited(h, exit)
                 /\ head' = [head EXCEPT ![d] = @ \/ exit]
                 /\ IF RunCommandWithLog(exit, Delivered(h, out))
                    THEN /\ pc' = [pc EXCEPT ![h] = "fetch"]
                         /\ UNCHANGED err
                    ELSE /\ err' = [err EXCEPT ![h] = "mirror"]
                         /\ pc' = [pc EXCEPT ![h] = "finish"]
    /\ UNCHANGED << url, mutex, queueSize, status, dropUid, cleaned, work,
                    closed, buildInfo >>
    /\ UNCHANGED << queueVars, cfgVars, histVars, logVars, crashed >>

\* The context Task.run puts in front of the error of a failed stage:
\* fmt.Errorf("can't checkout branch ..."), fmt.Errorf("can't build
\* package: ..."); the errors of createWorkDir and installPackage are
\* returned as they are.
TaskRunError(failure) ==
    IF failure = "checkout" THEN << "can't checkout branch" >>
    ELSE IF failure = "build" THEN << "can't build package" >>
    ELSE << >>

\* The contexts of the error runBuild returns, outermost first: "can't
\* update mirror" for an error of updateMirror, "can't install package" for
\* every error of Task.run.
RunBuildError(failure) ==
    IF failure = "mirror" THEN << "can't update mirror" >>
    ELSE << "can't install package" >> \o TaskRunError(failure)

\* Task.updateMirror -> Task.fetch: git fetch in the mirror
Fetch(h) ==
    /\ ~crashed
    /\ pc[h] = "fetch"
    /\ Started(h, "fetch")
    /\ \E ok, out \in BOOLEAN :
         LET exit == ok /\ head[RepoDir(url[h])] IN
         /\ Exited(h, exit)
         /\ IF RunCommandWithLog(exit, Delivered(h, out))
            THEN /\ pc' = [pc EXCEPT ![h] = "workdir"]
                 /\ UNCHANGED err
            ELSE /\ err' = [err EXCEPT ![h] = "mirror"]
                 /\ pc' = [pc EXCEPT ![h] = "finish"]
    /\ UNCHANGED << url, mutex, queueSize, status, dropUid, cleaned, closed,
                    buildInfo >>
    /\ UNCHANGED << queueVars, fsVars, cfgVars, histVars, logVars, crashed >>

\* Task.run -> Task.createWorkDir: git clone of the mirror into workDir,
\* which fails when the directory is there already
CreateWorkDir(h) ==
    /\ ~crashed
    /\ pc[h] = "workdir"
    /\ Started(h, "workdir")
    /\ LET d == WorkDir(url[h]) IN
       \E ok, out \in BOOLEAN :
         LET exit == ok /\ ~work[d] IN
         /\ Exited(h, exit)
         /\ work' = [work EXCEPT ![d] = @ \/ exit]
         /\ IF RunCommandWithLog(exit, Delivered(h, out))
            THEN /\ pc' = [pc EXCEPT ![h] = "checkout"]
                 /\ UNCHANGED err
            ELSE /\ err' = [err EXCEPT ![h] = "workdir"]
                 /\ pc' = [pc EXCEPT ![h] = RunReturn]
    /\ UNCHANGED << url, mutex, queueSize, status, dropUid, cleaned, head,
                    closed, buildInfo >>
    /\ UNCHANGED << queueVars, cfgVars, histVars, logVars, crashed >>

AfterError_IgnoreBuild(failure) ==
    IF failure = "build" THEN "install" ELSE RunReturn

\* where Task.run goes on when a stage gave an error: it returns
AfterError(failure) == RunReturn

\* A stage of Task.run that runs a command inside workDir: it can succeed
\* only while the directory exists; on failure run returns and the deferred
\* cleanWorkDir is next.
RunInWorkDir(h, stage, next, failure) ==
    /\ Started(h, stage)
    /\ \E ok, out \in BOOLEAN :
         LET exit == ok /\ work[WorkDir(url[h])] IN
         /\ Exited(h, exit)
         /\ IF RunCommandWithLog(exit, Delivered(h, out))
            THEN /\ pc' = [pc EXCEPT ![h] = next]
                 /\ UNCHANGED err
            ELSE /\ err' = [err EXCEPT ![h] = failure]
                 /\ pc' = [pc EXCEPT ![h] = AfterError(failure)]
    /\ UNCHANGED << url, mutex, queueSize, status, dropUid, cleaned, closed,
                    buildInfo >>
    /\ UNCHANGED << queueVars, fsVars, cfgVars, histVars, logVars, crashed >>

\* Task.run -> Task.checkoutBranch
CheckoutBranch(h) ==
    /\ ~crashed
    /\ pc[h] = "checkout"
    /\ RunInWorkDir(h, "checkout", "build", "checkout")

\* Task.run -> Task.buildPackage, then the install command if one is set
BuildPackage(h) ==
    /\ ~crashed
    /\ pc[h] = "build"
    /\ RunInWorkDir(h, "build", AfterBuild, "build")

\* Task.run -> Task.installPackage
InstallPackage(h) ==
    /\ ~crashed
    /\ pc[h] = "install"
    /\ RunInWorkDir(h, "install", RunReturn, "install")

\* Task.cleanWorkDir, deferred in Task.run: os.RemoveAll(task.workDir)
CleanWorkDir(h) ==
    /\ ~crashed
    /\ pc[h] = "clean"
    /\ Started(h, "clean")
    /\ Exited(h, TRUE)
    /\ work' = [work EXCEPT ![WorkDir(url[h])] = FALSE]
    /\ cleaned' = [cleaned EXCEPT ![h] = ~work'[WorkDir(url[h])]]
    /\ pc' = [pc EXCEPT ![h] = "finish"]
    /\ UNCHANGED << url, mutex, queueSize, status, err, dropUid, head,
                    closed, buildInfo >>
    /\ UNCHANGED << queueVars, cfgVars, histVars, logVars, crashed >>

\* runBuild has returned: buildInfo.finishedAt is set, then "error during
\* build", status "error" and WriteHeader(400), or "build completed" and
\* status "success"; the handler returns and the deferred Free runs.  The
\* task is gone, the record of what it did is dropped.
FinishBuild(h) ==
    /\ ~crashed
    /\ pc[h] = "finish"
    /\ IF err[h] # "unset"
       THEN /\ status' = [status EXCEPT ![h] = WriteHeader(RespWrite(@), 400)]
            /\ err' = [err EXCEPT ![h] = "error"]
            /\ buildInfo' = [buildInfo EXCEPT ![h] = "error"]
       ELSE /\ status' = [status EXCEPT ![h] = RespWrite(@)]
            /\ err' = [err EXCEPT ![h] = "ok"]
            /\ buildInfo' = [buildInfo EXCEPT ![h] = "success"]
    /\ dropUid' = [dropUid EXCEPT ![h] = -1]
    /\ stages' = [stages EXCEPT ![h] = <<>>]
    /\ cleaned' = [cleaned EXCEPT ![h] = FALSE]
    /\ results' = [results EXCEPT ![h] = <<>>]
    /\ pc' = [pc EXCEPT ![h] = "free_lock"]
    /\ UNCHANGED << url, mutex, queueSize, closed >>
    /\ UNCHANGED << queueVars, fsVars, cfgVars, histVars, logVars, crashed >>

\* ----------------------------------------------------------- BuildQueue.Free
\* queue.Lock(); mutex := queue.clients[id]; defer queue.Unlock()
\* if queue.clients[id].locked == 0 { delete(queue.clients, id) }
\* With no entry for id the read panics: the deferred queue.Unlock() runs
\* and the handler ends without unlocking the per-key mutex.
FreeCheck(h) ==
    /\ ~crashed
    /\ pc[h] = "free_lock"
    /\ qowner = NoOne
    /\ mutex' = [mutex EXCEPT ![h] = clients[url[h]]]
    /\ IF clients[url[h]] = Nil
       THEN /\ err' = [err EXCEPT ![h] = "panic"]
            /\ pc' = [pc EXCEPT ![h] = "return"]
            /\ UNCHANGED << qowner, clients >>
       ELSE /\ qowner' = h
            /\ clients' = [clients EXCEPT ![url[h]] =
                              IF FreeDeletes(locked[url[h]][@]) THEN Nil ELSE @]
            /\ pc' = [pc EXCEPT ![h] = "free_unlock"]
            /\ UNCHANGED err
    /\ UNCHANGED << locked, mholder >>
    /\ UNCHANGED << url, queueSize, status, dropUid, stages, cleaned,
                    results, closed, buildInfo >>
    /\ UNCHANGED << fsVars, cfgVars, histVars, logVars, crashed >>

MutexAfterUnlock_StillHeld(holder) == holder

\* the holder of a sync.Mutex after Unlock: none
MutexAfterUnlock(holder) == NoOne

\* CountedMutex.Unlock: mutex.Mutex.Unlock()
CountedMutexUnlockMutex(h) ==
    /\ ~crashed
    /\ pc[h] = "free_unlock"
    /\ mholder' = [mholder EXCEPT ![url[h]][mutex[h]] = MutexAfterUnlock(@)]
    /\ pc' = [pc EXCEPT ![h] = "free_count"]
    /\ UNCHANGED << qowner, clients, locked >>
    /\ UNCHANGED << reqVars, fsVars, cfgVars, histVars, logVars, crashed >>

\* CountedMutex.Unlock: atomic.AddInt64(&mutex.locked, -1); then the
\* deferred queue.Unlock() and the handler has returned.
CountedMutexUnlockAdd(h) ==
    /\ ~crashed
    /\ pc[h] = "free_count"
    /\ locked' = [locked EXCEPT ![url[h]][mutex[h]] = @ - 1]
    /\ qowner' = NoOne
    /\ pc' = [pc EXCEPT ![h] = "idle"]
    /\ ClearRequest(h)
    /\ UNCHANGED << clients, mholder >>
    /\ UNCHANGED << fsVars, cfgVars, histVars, logVars, crashed >>

\* A handler that ended before Seize returned (bad request, panic): the
\* response is complete and the goroutine takes the next request.
Return(h) ==
    /\ ~crashed
    /\ pc[h] = "return"
    /\ pc' = [pc EXCEPT ![h] = "idle"]
    /\ ClearRequest(h)
    /\ UNCHANGED << queueVars, fsVars, cfgVars, histVars, logVars, crashed >>

Next ==
    \E h \in Handlers :
        \/ \E u \in URLs : ServeRequestBuild(h, u)
        \/ QueueGetSize(h)
        \/ SeizeInsert(h)
        \/ SeizeRead(h)
        \/ CountedMutexLockAdd(h)
        \/ CountedMutexLockMutex(h)
        \/ ParseForm(h)
        \/ RawSeteuid(h)
        \/ Clone(h)
        \/ Fetch(h)
        \/ CreateWorkDir(h)
        \/ CheckoutBranch(h)
        \/ BuildPackage(h)
        \/ InstallPackage(h)
        \/ CleanWorkDir(h)
        \/ FinishBuild(h)
        \/ FreeCheck(h)
        \/ CountedMutexUnlockMutex(h)
        \/ CountedMutexUnlockAdd(h)
        \/ Return(h)

Spec == Init /\ [][Next]_vars

\* Scheduling.  A goroutine that can run does run (weak fairness of every
\* step of a handler but the arrival of a request).  The steps that take a
\* sync.Mutex, the registry lock in GetSize, Seize and Free and the per-key
\* mutex in CountedMutex.Lock, are strongly fair: sync.Mutex hands the
\* mutex to a goroutine that has waited for it (starvation mode), so a
\* waiter is not passed over for ever by goroutines that arrive later.
Fairness ==
    \A h \in Handlers :
        /\ SF_vars(QueueGetSize(h))
        /\ SF_vars(SeizeInsert(h))
        /\ SF_vars(CountedMutexLockMutex(h))
        /\ SF_vars(FreeCheck(h))
        /\ WF_vars(SeizeRead(h))
        /\ WF_vars(CountedMutexLockAdd(h))
        /\ WF_vars(ParseForm(h))
        /\ WF_vars(RawSeteuid(h))
        /\ WF_vars(Clone(h))
        /\ WF_vars(Fetch(h))
        /\ WF_vars(CreateWorkDir(h))
        /\ WF_vars(CheckoutBranch(h))
        /\ WF_vars(BuildPackage(h))
        /\ WF_vars(InstallPackage(h))
        /\ WF_vars(CleanWorkDir(h))
        /\ WF_vars(FinishBuild(h))
        /\ WF_vars(CountedMutexUnlockMutex(h))
        /\ WF_vars(CountedMutexUnlockAdd(h))
        /\ WF_vars(Return(h))

\* the daemon under fair scheduling, every build ending
SpecFair == Init /\ [][Next]_vars /\ Fairness

SpecNoInstall == InitNoInstall /\ [][Next]_vars

\* started with an install command or without one
InitAnyInstall == \E install \in { DefaultInstallCommand, "" } : InitWith(install)

SpecAnyInstall == InitAnyInstall /\ [][Next]_vars

\* ------------------------------------------------- clients that disconnect
\* The client of a request closes its connection: from then on a write to
\* the response fails.  Nothing in the handler looks at the connection.
ClientCloses(h) ==
    /\ ~crashed
    /\ pc[h] \notin { "idle", "dead" }
    /\ ~closed[h]
    /\ closed' = [closed EXCEPT ![h] = TRUE]
    /\ UNCHANGED << pc, url, mutex, queueSize, status, err, dropUid, stages,
                    cleaned, results, buildInfo >>
    /\ UNCHANGED << queueVars, fsVars, cfgVars, histVars, logVars, crashed >>

NextDisconnect ==
    \/ Next
    \/ \E h \in Handlers : ClientCloses(h)

SpecDisconnect == Init /\ [][NextDisconnect]_vars

\* ============================================================ build history
\* What the handlers do to the history ring.  A handler is at "idle" (no
\* build recorded for its request yet), inside saveNewBuild ("save"), in
\* runBuild ("running") or past it with finishedAt set ("finished").
\*
\* A BuildInfo is [id, status, finished, error, pointer]: id numbers the
\* builds in the order of their saveNewBuild calls; finished and error tell
\* whether finishedAt and the error message are set; pointer is the ring
\* element BuildHandler.saveNewBuild stores in the value (none in
\* HTTPHandler, whose ring holds pointers to the BuildInfo objects).
NewBuildInfo(n, p) ==
    [ id |-> n, status |-> "in progress", finished |-> FALSE, error |-> FALSE,
      pointer |-> p ]

\* The ring after the BuildInfo object b was changed through a pointer:
\* every element that points to the object shows the change.
Mutated(r, b) ==
    [ p \in Elements |-> IF r[p] # NilInfo /\ r[p].id = b.id THEN b ELSE r[p] ]

Prev_Stay(p) == p

\* the ring element saveNewBuild moves handler.lastBuild to
MoveBackward(p) == Prev(p)

\* saveNewBuild, first half.
\* HTTPHandler: buildListMutex.Lock(); lastBuild = lastBuild.Prev()
\* BuildHandler: info with pointer: lastBuild; lastBuild.Value = info
SaveNewBuildFirst(h) ==
    /\ hpc[h] = "idle"
    /\ nbuilds < MaxBuilds
    /\ nbuilds' = nbuilds + 1
    /\ hpc' = [hpc EXCEPT ![h] = "save"]
    /\ IF revision = "HTTPHandler"
       THEN /\ buildListMutex = NoOne
            /\ buildListMutex' = h
            /\ lastBuild' = MoveBackward(lastBuild)
            /\ info' = [info EXCEPT ![h] = NewBuildInfo(nbuilds + 1, Nil)]
            /\ UNCHANGED ring
       ELSE /\ info' = [info EXCEPT ![h] = NewBuildInfo(nbuilds + 1, lastBuild)]
            /\ ring' = [ring EXCEPT ![lastBuild] =
                           NewBuildInfo(nbuilds + 1, lastBuild)]
            /\ UNCHANGED << lastBuild, buildListMutex >>
    /\ UNCHANGED << revision, buildVars, logVars >>

\* saveNewBuild, second half.
\* HTTPHandler: lastBuild.Value = buildInfo; buildListMutex.Unlock()
\* BuildHandler: lastBuild = lastBuild.Prev(); return info
SaveNewBuildSecond(h) ==
    /\ hpc[h] = "save"
    /\ hpc' = [hpc EXCEPT ![h] = "running"]
    /\ IF revision = "HTTPHandler"
       THEN /\ ring' = [ring EXCEPT ![lastBuild] = info[h]]
            /\ buildListMutex' = NoOne
            /\ UNCHANGED lastBuild
       ELSE /\ lastBuild' = MoveBackward(lastBuild)
            /\ UNCHANGED << ring, buildListMutex >>
    /\ UNCHANGED << revision, nbuilds, info, buildVars, logVars >>

\* After saveNewBuild.  HTTPHandler: rawSeteuid; when it fails the handler
\* returns and its BuildInfo is left as it is.  Else runBuild runs and,
\* when it has returned, buildInfo.finishedAt = time.Now(): HTTPHandler
\* writes through the pointer, BuildHandler changes its local value.
SetFinishedAt(h) ==
    /\ hpc[h] = "running"
    /\ \E seteuid \in BOOLEAN :
         IF revision = "HTTPHandler" /\ ~seteuid
         THEN /\ hpc' = [hpc EXCEPT ![h] = "idle"]
              /\ info' = [info EXCEPT ![h] = NilInfo]
              /\ UNCHANGED ring
         ELSE /\ hpc' = [hpc EXCEPT ![h] = "finished"]
              /\ info' = [info EXCEPT ![h].finished = TRUE]
              /\ ring' = IF revision = "HTTPHandler"
                         THEN Mutated(ring, info'[h]) ELSE ring
    /\ UNCHANGED << revision, lastBuild, nbuilds, buildListMutex >>
    /\ UNCHANGED << buildVars, logVars >>

\* buildInfo.status = "error"; buildInfo.error = err.Error(), or
\* buildInfo.status = "success"; the handler returns.  HTTPHandler writes
\* through the pointer; BuildHandler changes its local value and ends with
\* buildInfo.Save(): info.pointer.Value = info.
SetStatus(h) ==
    /\ hpc[h] = "finished"
    /\ \E failed \in BOOLEAN :
         LET b == [info[h] EXCEPT
                      !.status = IF failed THEN "error" ELSE "success",
                      !.error = failed] IN
         ring' = IF revision = "HTTPHandler"
                 THEN Mutated(ring, b)
                 ELSE [ring EXCEPT ![b.pointer] = b]
    /\ hpc' = [hpc EXCEPT ![h] = "idle"]
    /\ info' = [info EXCEPT ![h] = NilInfo]
    /\ UNCHANGED << revision, lastBuild, nbuilds, buildListMutex >>
    /\ UNCHANGED << buildVars, logVars >>

\* Ring.Do from element p over n elements, without the nil values
RECURSIVE RingDo(_, _)
RingDo(p, n) ==
    IF n = 0 THEN <<>>
    ELSE (IF ring[p] = NilInfo THEN <<>> ELSE << ring[p] >>)
         \o RingDo(NextElement(p), n - 1)

\* The rows of the listing, first to last.
\* HTTPHandler.serveRequestListBuilds: handler.lastBuild.Do(...)
\* BuildHandler.handleListBuilds: handler.lastBuild.Next().Do(...)
ListBuilds ==
    RingDo(IF revision = "HTTPHandler" THEN lastBuild
           ELSE NextElement(lastBuild), HistorySize)

NextHistory ==
    \E h \in Handlers :
        \/ SaveNewBuildFirst(h)
        \/ SaveNewBuildSecond(h)
        \/ SetFinishedAt(h)
        \/ SetStatus(h)

\* the history of HTTPHandler (part_000)
SpecHTTPHandlerHistory == Init /\ [][NextHistory]_vars

\* the history of BuildHandler (main.go)
InitBuildHandler ==
    /\ InitBuild(DefaultInstallCommand)
    /\ InitHistory("BuildHandler")
    /\ InitLoggers

SpecBuildHandlerHistory == InitBuildHandler /\ [][NextHistory]_vars

\* =============================================================== log writers
\* LineFlushLogger.Write(d): the data goes into the buffer of the copy the
\* method works on, and Flush writes that buffer downstream line by line.
\* LineFlushLogger.Write(d) when the write of the failAt-th line to
\* logger.output gives an error (failAt = 0: every write succeeds)
LineFlushLoggerWriteAt(d, failAt) ==
    LET local == buffer \o d
        lines == ScanLines(local) IN
    /\ written' = written \o d
    /\ forwarded' = forwarded \o
           (IF failAt = 0 THEN Flush(local)
            ELSE WriteLines(SubSeq(lines, 1, failAt - 1)))
    /\ calls' = FlushCalls(lines, failAt)
    /\ flushErr' = (failAt # 0)
    /\ buffer' = RetainedBuffer(buffer, local)

\* LineFlushLogger.Write(d), logger.output taking every write
LineFlushLoggerWrite(d) == LineFlushLoggerWriteAt(d, 0)

\* data is written to the LineFlushLogger itself
WriteData(d) ==
    /\ Len(written) + Len(d) <= MaxWritten
    /\ LineFlushLoggerWrite(d)
    /\ UNCHANGED << prefix, lastData, lastOutput, loggerClosed, given >>
    /\ UNCHANGED << buildVars, histVars >>

\* PrefixLogger.Write(d), on top of the LineFlushLogger
PrefixLoggerWrite(d) ==
    /\ Len(written) + Len(d) <= MaxWritten
    /\ LineFlushLoggerWrite(PrefixedData(prefix, d))
    /\ lastData' = d
    /\ lastOutput' = Flush(buffer \o PrefixedData(prefix, d))
    /\ UNCHANGED << prefix, loggerClosed, given >>
    /\ UNCHANGED << buildVars, histVars >>

\* PrefixLogger.Close -> LineFlushLogger.Close: Flush of the logger's buffer
LoggerClose ==
    /\ ~loggerClosed
    /\ loggerClosed' = TRUE
    /\ forwarded' = forwarded \o Flush(buffer)
    /\ calls' = FlushCalls(ScanLines(buffer), 0)
    /\ flushErr' = FALSE
    /\ UNCHANGED << prefix, buffer, written, lastData, lastOutput, given >>
    /\ UNCHANGED << buildVars, histVars >>

NextLoggers ==
    \/ \E d \in Data(MaxWritten) : WriteData(d)
    \/ \E d \in Data(MaxWritten) : PrefixLoggerWrite(d)
    \/ LoggerClose

SpecLoggers == Init /\ [][NextLoggers]_vars

\* prefixes given to PrefixLogger.WithPrefix
Prefixes == { <<"*">>, <<"+">> }

\* PrefixLogger.WithPrefix: logger.prefix = prefix, on a copy of the logger
WithPrefix(old, p) == p

\* logger = logger.WithPrefix(p): the derived logger has the same output;
\* nothing was written through it yet
LoggerWithPrefix(p) ==
    /\ Len(given) <= MaxDerived
    /\ prefix' = WithPrefix(prefix, p)
    /\ given' = Append(given, p)
    /\ lastData' = <<>>
    /\ lastOutput' = <<>>
    /\ UNCHANGED << buffer, written, forwarded, loggerClosed, calls, flushErr >>
    /\ UNCHANGED << buildVars, histVars >>

NextLoggersDerived ==
    \/ NextLoggers
    \/ \E p \in Prefixes : LoggerWithPrefix(p)

\* the log writers with loggers derived by WithPrefix
SpecLoggersDerived == Init /\ [][NextLoggersDerived]_vars

\* data is written to the LineFlushLogger and one of the writes to
\* logger.output gives an error (the client has closed the connection)
WriteDataFails(d) ==
    /\ Len(written) + Len(d) <= MaxWritten
    /\ \E failAt \in 1..Len(ScanLines(buffer \o d)) :
           LineFlushLoggerWriteAt(d, failAt)
    /\ UNCHANGED << prefix, lastData, lastOutput, loggerClosed, given >>
    /\ UNCHANGED << buildVars, histVars >>

NextLoggersFailing ==
    \/ NextLoggers
    \/ \E d \in Data(MaxWritten) : WriteDataFails(d)

\* the log writers over an output that can fail
SpecLoggersFailing == Init /\ [][NextLoggersFailing]_vars


\* =================================================================== claims
\* positions inside BuildQueue.Seize
SeizePcs == { "seize_lock", "seize_read", "seize_count", "seize_mutex" }
\* positions after Seize has returned and before the deferred Free starts
ProtectedPcs == { "running", "setuid", "clone", "fetch", "workdir", "checkout",
                  "build", "install", "clean", "finish" }
\* positions of runBuild, from the mirror sync to the cleanup
TaskPcs == { "clone", "fetch", "workdir", "checkout", "build", "install",
             "clean" }
\* positions inside BuildQueue.Free
FreePcs == { "free_lock", "free_unlock", "free_count" }

\* handlers that have entered Seize(k) and not yet returned from Free(k)
InFlight(k) ==
    { h \in Handlers : url[h] = k /\ pc[h] \in SeizePcs \cup ProtectedPcs \cup FreePcs }

Commands(h) == { stages[h][i] : i \in 1..Len(stages[h]) }

\* h waits in Seize: the per-key mutex it is about to lock is held
Blocked(h) == pc[h] = "seize_mutex" /\ mholder[url[h]][mutex[h]] # NoOne

\* C1: for every key, at most one handler is between the return of its
\* Seize(k) and the start of its Free(k).
C1_MutualExclusion ==
    \A h1, h2 \in Handlers :
        (h1 # h2 /\ url[h1] = url[h2] /\ pc[h1] \in ProtectedPcs)
            => pc[h2] \notin ProtectedPcs

\* a handler is in its protected section while another one, for the same
\* key, waits in Seize
C1_Witness ==
    \E h1, h2 \in Handlers :
        h1 # h2 /\ url[h1] = url[h2] /\ pc[h1] \in TaskPcs /\ Blocked(h2)

\* C2 (as claimed): two build tasks that runBuild maps to the same mirror
\* directory and workspace never have their mirror-sync..cleanup sections
\* overlap, whatever their repository URLs.
C2_OneTaskPerDirectory ==
    \A h1, h2 \in Handlers :
        (h1 # h2 /\ pc[h1] \in TaskPcs /\ pc[h2] \in TaskPcs)
            => (RepoDir(url[h1]) # RepoDir(url[h2])
                /\ WorkDir(url[h1]) # WorkDir(url[h2]))

\* C3 (as claimed): once every handler that called Seize(k) has completed
\* Free(k), GetSize(k) is 0 and the registry has no entry for k; the registry
\* never has more entries than there are keys with a holder or waiter.
C3_SlotRemoved ==
    /\ \A k \in Keys : InFlight(k) = {} => (GetSize(k) = 0 /\ clients[k] = Nil)
    /\ Cardinality({ k \in Keys : clients[k] # Nil })
           <= Cardinality({ k \in Keys : InFlight(k) # {} })

\* C4: GetSize(k) is never negative, never more than the number of handlers
\* that entered Seize(k) and have not returned from Free(k), and 0 for a key
\* without registry entry.
C4_SizeBounded ==
    \A k \in Keys :
        /\ GetSize(k) >= 0
        /\ GetSize(k) <= Cardinality(InFlight(k))
        /\ clients[k] = Nil => GetSize(k) = 0

\* a holder and a waiter of the same key are both counted
C4_Witness == \E k \in Keys : GetSize(k) = 2 /\ Cardinality(InFlight(k)) = 2

\* C5 (as claimed): of two requests for the same URL, the one that has to
\* wait in Seize has reported a queue size of at least 1 before it blocks,
\* and it starts no build stage before the other one has called Free.
C5_WaiterReportsSize ==
    /\ \A h \in Handlers : Blocked(h) => queueSize[h] >= 1
    /\ \A h1, h2 \in Handlers :
           (h1 # h2 /\ url[h1] = url[h2] /\ pc[h1] \in ProtectedPcs)
               => Commands(h2) = {}

\* C6 (as claimed): a build or install command is started only after a
\* successful privilege drop to the uid of the user given with -u, which is
\* the handler's buildUid.
C6_DropsToConfiguredUid ==
    \A h \in Handlers :
        Commands(h) \cap { "build", "install" } # {} =>
            (dropUid[h] = lookupUid /\ buildUid = lookupUid)

\* C7: when the privilege drop fails, no stage of the build task is started
\* for the request and the handler returns through Free; a handler that has
\* returned holds no per-key mutex.
C7_DropFailureAborts ==
    \A h \in Handlers :
        /\ err[h] = "setuid" =>
               (pc[h] \in FreePcs /\ stages[h] = <<>> /\ dropUid[h] = -1)
        /\ pc[h] = "idle" =>
               \A k \in Keys : \A s \in Slots : mholder[k][s] # h

\* the privilege drop failed and the handler has unlocked the per-key mutex
C7_Witness ==
    \E h \in Handlers :
        /\ err[h] = "setuid" /\ pc[h] = "free_count"
        /\ \A k \in Keys : \A s \in Slots : mholder[k][s] # h

\* C8 (as claimed): the status sent to the client is 200 only when the build
\* succeeded, and is not 200 when the URL is missing, a stage failed or the
\* privilege drop failed.
C8_StatusReflectsOutcome ==
    \A h \in Handlers :
        pc[h] \in FreePcs \cup { "return" } =>
            /\ err[h] = "ok" => status[h] = 200
            /\ err[h] \in { "nourl", "setuid", "error" } => status[h] # 200

MirrorCommands(h) ==
    SelectSeq(stages[h], LAMBDA c : c \in { "clone", "fetch" })

\* every command h started before its last one exited with success
EarlierSucceeded(h) ==
    \A i \in 1..(Len(results[h]) - 1) : results[h][i]

ListedIds == [ i \in 1..Len(ListBuilds) |-> ListBuilds[i].id ]

C13_FinishChangesOwnRecord ==
    [][\A h \in Handlers :
          (hpc[h] \in { "running", "finished" } /\ hpc'[h] # hpc[h]) =>
              \A p \in Elements :
                  IF ring[p].id = info[h].id
                  THEN (hpc[h] = "finished" /\ hpc'[h] = "idle") =>
                           /\ ring'[p].id = info[h].id
                           /\ ring'[p].status \in { "success", "error" }
                           /\ ring'[p].finished
                  ELSE ring'[p] = ring[p]]_vars

\* C14 (as claimed): as long as the writer is not closed, what the
\* line-flushing writer has forwarded is exactly the data written so far up
\* to its last newline; the rest stays in the buffer.
C14_ForwardsCompleteLines ==
    ~loggerClosed =>
        LET ends == { i \in 0..Len(written) : i = 0 \/ written[i] = "\n" }
            last == CHOOSE i \in ends : \A j \in ends : j <= i
        IN /\ forwarded = SubSeq(written, 1, last)
           /\ buffer = SubSeq(written, last + 1, Len(written))

\* C15 (as claimed): after a write of data to the prefixing writer, the
\* pipeline has put out every line of the data, in order, each with the
\* prefix in front and a newline at its end.
C15_PrefixesEveryLine ==
    lastData # <<>> =>
        LET lines == ScanLines(lastData)
            out == ScanLines(lastOutput)
        IN /\ Len(out) = Len(lines)
           /\ \A i \in 1..Len(lines) : out[i] = prefix \o lines[i]
           /\ lastOutput[Len(lastOutput)] = "\n"

\* C16: builds of different keys do not wait for each other.  A handler in
\* Seize finds the per-key mutex free unless a handler of the same key
\* holds it, whatever handlers of other keys hold; and the registry lock is
\* held only inside Free, which waits for nothing, never across a build.
C16_KeysDoNotWait ==
    /\ \A h \in Handlers :
           ( /\ pc[h] = "seize_mutex"
             /\ \A g \in Handlers \ {h} :
                    url[g] = url[h] =>
                        pc[g] \notin ProtectedPcs \cup { "free_lock", "free_unlock" } )
               => MutexUnlocked(url[h], mutex[h])
    /\ qowner # NoOne => pc[qowner] \in { "free_unlock", "free_count" }

\* two builds of different keys are in their protected sections together
C16_Witness ==
    \E h1, h2 \in Handlers :
        /\ url[h1] # url[h2]
        /\ pc[h1] \in ProtectedPcs /\ pc[h2] \in ProtectedPcs
        /\ mholder[url[h1]][clients[url[h1]]] = h1
        /\ mholder[url[h2]][clients[url[h2]]] = h2

\* the stages whose failure ends the build task
StageErrors == { "mirror", "workdir", "checkout", "build", "install" }

\* C17 (as claimed): the outcome of a started build depends only on the
\* exit results of its commands, also when the client has gone: a stage
\* fails only when a command exited with failure, and a task all of whose
\* commands exited with success has run the build and the install command
\* and ends without error; the BuildInfo of a build that has ended is
\* "success" or "error".
C17_OutcomeFromExitResults ==
    \A h \in Handlers :
        /\ err[h] \in StageErrors => \E i \in 1..Len(results[h]) : ~results[h][i]
        /\ (pc[h] = "finish" /\ \A i \in 1..Len(results[h]) : results[h][i]) =>
               /\ err[h] = "unset"
               /\ { "build", "install" } \subseteq Commands(h)
        /\ (pc[h] \in FreePcs /\ err[h] \in { "ok", "error" }) =>
               buildInfo[h] \in { "success", "error" }

\* C18 (as claimed): the error runBuild returns names the stage that
\* failed, "can't update mirror" for the mirror sync, "can't checkout
\* branch" for the checkout, "can't build package" for the build command,
\* and names no stage other than the one that failed.
C18_ErrorNamesFailedStage ==
    \A h \in Handlers :
        (pc[h] = "finish" /\ err[h] \in StageErrors) =>
            LET label == [ f \in { "mirror", "checkout", "build", "install" } |->
                             CASE f = "mirror" -> "can't update mirror"
                               [] f = "checkout" -> "can't checkout branch"
                               [] f = "build" -> "can't build package"
                               [] f = "install" -> "can't install package" ]
                said == { RunBuildError(err[h])[i] :
                              i \in 1..Len(RunBuildError(err[h])) }
            IN /\ err[h] \in { "mirror", "checkout", "build" } =>
                      label[err[h]] \in said
               /\ \A f \in DOMAIN label : f # err[h] => label[f] \notin said

\* C19: a build request with an empty repository URL is answered with the
\* bad-request status and returns: the queue is neither queried nor seized,
\* no build record is created, the privileges are not changed, no command
\* is run, and the step leaves the queue and the directories as they were.
C19_EmptyURLChangesNothing ==
    /\ [](\A h \in Handlers :
             (url[h] = <<>> /\ pc[h] \notin { "idle", "dead" }) =>
                 /\ pc[h] = "return"
                 /\ status[h] = 400
                 /\ queueSize[h] = -1
                 /\ mutex[h] = Nil
                 /\ buildInfo[h] = NoBuildInfo
                 /\ dropUid[h] = -1
                 /\ stages[h] = << >>
                 /\ results[h] = << >>
                 /\ \A k \in Keys : \A s \in Slots : mholder[k][s] # h)
    /\ [][\A h \in Handlers :
             (pc[h] = "idle" /\ pc'[h] = "return") =>
                 UNCHANGED << queueVars, fsVars, cfgVars >>]_vars

\* an empty-URL request has been answered while the other handler holds the
\* mutex of a key and runs its build
C19_Witness ==
    \E h, g \in Handlers :
        /\ pc[h] = "return" /\ url[h] = <<>> /\ status[h] = 400
        /\ g # h /\ stages[g] # << >>

\* the stages of runBuild in the order of the code; clone and fetch are the
\* mirror sync
StageOrder == << "clone", "fetch", "workdir", "checkout", "build", "install" >>

\* C20: the stages of a build start in the order mirror sync (clone, fetch),
\* work directory, checkout, build, install, each at most once and none
\* left out but a clone of an existing mirror; a stage starts only when
\* every stage before it has succeeded; after a failed mirror sync nothing
\* else runs; with no install command the install stage never starts and
\* the task succeeds after the build.
C20_StagesInOrder ==
    \A h \in Handlers :
        LET st == stages[h]
            n == Len(st)
            Rank(s) == CHOOSE r \in 1..Len(StageOrder) : StageOrder[r] = s
        IN /\ Len(results[h]) = n
           /\ \A i \in 1..n : st[i] = "clean" => i = n
           /\ \A i \in 1..n : st[i] # "clean" =>
                  /\ \A j \in 1..(i - 1) : results[h][j] /\ Rank(st[j]) < Rank(st[i])
                  /\ \/ st[i] = "clone" /\ i = 1
                     \/ st[i] = "fetch" /\ i <= 2
                     \/ i > 1 /\ Rank(st[i - 1]) = Rank(st[i]) - 1
           /\ \A i \in 1..n :
                  (st[i] \in { "clone", "fetch" } /\ ~results[h][i]) => i = n
           /\ installCommand = "" =>
                  /\ "install" \notin Commands(h)
                  /\ (pc[h] = "finish" /\ "build" \in Commands(h)
                          /\ \A i \in 1..n : results[h][i]) => err[h] = "unset"
           /\ (installCommand # "" /\ pc[h] = "finish" /\ err[h] = "unset") =>
                  "install" \in Commands(h)

\* with no install command a task has gone through every stage up to the
\* build and returned without an error
C20_Witness ==
    \E h \in Handlers :
        /\ installCommand = ""
        /\ pc[h] = "finish"
        /\ err[h] = "unset"
        /\ stages[h] = << "clone", "fetch", "workdir", "checkout", "build", "clean" >>

\* C21 (as claimed): the registry map is read and written only under the
\* registry lock: Seize never reads the map while another handler can
\* insert or delete an entry, the runtime never stops the process for a
\* concurrent map access, and no handler dereferences a slot that is absent
\* from the map.
C21_MapAccessUnderLock ==
    /\ ~crashed
    /\ \A h \in Handlers :
           /\ pc[h] = "seize_read" => \A g \in Handlers \ {h} : ~MapWriter(g)
           /\ err[h] # "panic"

\* C22 (as claimed): every record a listing renders, whenever the listing
\* runs, has its end time unset exactly when its status is "in progress",
\* and an error message only when its status is "error".
C22_ListedRecordsConsistent ==
    \A i \in 1..Len(ListBuilds) :
        /\ ~ListBuilds[i].finished <=> ListBuilds[i].status = "in progress"
        /\ ListBuilds[i].error => ListBuilds[i].status = "error"

\* C23 (as claimed): while no more builds were recorded than the ring has
\* elements, every build whose saveNewBuild has returned is in the ring and
\* listed, however the saveNewBuild calls of the handlers interleave.
C23_EveryInsertRetained ==
    nbuilds <= HistorySize =>
        \A n \in 1..nbuilds :
            (\A h \in Handlers : ~(hpc[h] = "save" /\ info[h].id = n)) =>
                \E i \in 1..Len(ListedIds) : ListedIds[i] = n

\* C24: every write of LineFlushLogger.Flush to its output is one line
\* ended by exactly one newline; the flusher is called after every write
\* that succeeded, before the next line is written; a write that fails is
\* the last call of the Flush, no flush follows it, and Flush returns the
\* error; with no failed write Flush returns nil.
C24_FlushAfterEachLine ==
    /\ \A i \in 1..Len(calls) :
           /\ calls[i].op = (IF i % 2 = 1 THEN "write" ELSE "flush")
           /\ calls[i].op = "write" =>
                  /\ Len(calls[i].data) >= 1
                  /\ \A j \in 1..Len(calls[i].data) :
                         calls[i].data[j] = "\n" <=> j = Len(calls[i].data)
                  /\ IF calls[i].ok
                     THEN i < Len(calls) /\ calls[i + 1].op = "flush"
                     ELSE i = Len(calls)
    /\ flushErr <=> \E i \in 1..Len(calls) : ~calls[i].ok

\* a Flush that forwarded one line, flushed, and then failed to write the
\* second line
C24_Witness ==
    /\ Len(calls) = 3
    /\ calls[1].ok /\ calls[2].op = "flush" /\ ~calls[3].ok
    /\ flushErr

\* the prefixes of a chain of derivations put together, outermost first
RECURSIVE Composed(_)
Composed(ps) == IF ps = <<>> THEN <<>> ELSE Head(ps) \o Composed(Tail(ps))

\* C25 (as claimed): what a write through a logger derived with WithPrefix
\* forwards starts with the prefix of the logger it was derived from
\* followed by the prefix given to WithPrefix.
C25_WithPrefixComposes ==
    lastData # <<>> =>
        /\ Len(lastOutput) >= Len(Composed(given))
        /\ SubSeq(lastOutput, 1, Len(Composed(given))) = Composed(given)

\* the per-key mutexes of key k that handler h holds
Held(h, k) == { s \in Slots : mholder[k][s] = h }

\* C26: a handler whose Seize has returned holds the mutex of its key until
\* its Free unlocks it, leaves its protected section only into Free
\* whatever the outcome of the request (parse error, failed privilege drop,
\* failed or successful build), and holds nothing once Free has unlocked;
\* when no handler of a key is left, GetSize of the key is 0 and no mutex of
\* the key is held, so that the next Seize does not wait.
C26_SeizeThenOneFree ==
    /\ [](\A h \in Handlers :
             /\ pc[h] \in ProtectedPcs \cup { "free_lock", "free_unlock" } =>
                    /\ Held(h, url[h]) = { clients[url[h]] }
                    /\ \A k \in Keys \ { url[h] } : Held(h, k) = {}
             /\ pc[h] \in { "idle", "return", "free_count" } =>
                    \A k \in Keys : Held(h, k) = {})
    /\ [](\A k \in Keys :
             InFlight(k) = {} =>
                 /\ GetSize(k) = 0
                 /\ \A s \in Slots : mholder[k][s] = NoOne)
    /\ [][\A h \in Handlers :
             (pc[h] \in ProtectedPcs /\ pc'[h] \notin ProtectedPcs) =>
                 pc'[h] \in { "free_lock", "dead" }]_vars

\* the entry of a key is in the registry, so a request for the key has gone
\* through Seize; it has returned from Free, and the next request for the
\* key, the only one left, has read the size 0 and enters Seize
C26_Witness ==
    \E k \in Keys : \E h \in Handlers :
        /\ clients[k] # Nil
        /\ InFlight(k) = { h }
        /\ pc[h] = "seize_lock"
        /\ queueSize[h] = 0
        /\ \A s \in Slots : mholder[k][s] = NoOne

\* C27 (as claimed): when the handler returns (it is in the deferred Free),
\* the build record it created, if any, has the status "success" or
\* "error", whatever the exit path after saveNewBuild.
C27_RecordLeavesInProgress ==
    \A h \in Handlers :
        (pc[h] \in FreePcs /\ buildInfo[h] # NoBuildInfo) =>
            buildInfo[h] \in { "success", "error" }

\* C28: no handler waits for a per-key mutex while it holds the registry
\* lock; inside Free a handler only unlocks the per-key mutex, one it holds,
\* and never waits for one; under fair scheduling, with every build ending
\* and every holder calling Free, a handler that waits in Seize for the
\* mutex of its key gets it (unless the process has ended).
C28_NoDeadlockNoStarvation ==
    /\ [](\A h \in Handlers :
             /\ pc[h] = "seize_mutex" => qowner # h
             /\ pc[h] = "free_unlock" =>
                    (qowner = h /\ mholder[url[h]][mutex[h]] = h))
    /\ \A h \in Handlers : Blocked(h) ~> (pc[h] = "running" \/ crashed)

\* a handler waits in Seize for the mutex of its key while the holder is
\* inside Free, holding the registry lock
C28_Witness ==
    \E h, g \in Handlers :
        /\ Blocked(h)
        /\ pc[g] = "free_unlock" /\ url[g] = url[h] /\ qowner = g

====
